---------------------------- MODULE Spec2Model ----------------------------
(***************************************************************************)
(* Model of the networked chess client in src/client/src/main.rs: the      *)
(* transport thread that owns the TCP socket, the GUI handlers (update,    *)
(* mouse_button_up_event, key_down_event) and the two mpsc channels        *)
(* between them.                                                           *)
(*                                                                         *)
(* A Rust String is represented by its UTF-8 bytes (a sequence of numbers  *)
(* 0..255), which is what String::into_bytes hands out and what            *)
(* String::from_utf8 accepts after validation.  The rules engine           *)
(* (osveijer_chess::Game) is an external crate: make_move is recorded as a *)
(* call, get_possible_moves and the board are nondeterministic inputs.     *)
(***************************************************************************)
EXTENDS Integers, Sequences, FiniteSets, TLC

(***************************************************************************)
(* Program constants.                                                      *)
(***************************************************************************)
MSG_SIZE == 32

(***************************************************************************)
(* Bounds of the model.                                                    *)
(***************************************************************************)
\* longest message (in characters) given to the frame codec
MaxChars == 33
\* messages that enter the system in one run: the moves finalized by the
\* Application Workers plus the frames written by the environment's peer
MaxTraffic == 2
\* size of a partial chunk: bytes of a frame that arrive (or are written)
\* separately from the rest of the frame
PartialChunk == 10

(***************************************************************************)
(* Sequences of bytes.                                                     *)
(***************************************************************************)
Min(S) == CHOOSE x \in S : \A y \in S : x <= y

Take(s, n) == SubSeq(s, 1, IF n < Len(s) THEN n ELSE Len(s))

Drop(s, n) == SubSeq(s, n + 1, Len(s))

IsPrefix(s, t) == Len(s) <= Len(t) /\ SubSeq(t, 1, Len(s)) = s

\* Vec::resize(n, v): truncates to n elements or extends with v
Resize(s, n, v) == [k \in 1..n |-> IF k <= Len(s) THEN s[k] ELSE v]

\* iter().take_while(|&x| x != 0).collect()
TakeWhileNonZero(s) ==
    LET zs == {k \in 1..Len(s) : s[k] = 0}
    IN  IF zs = {} THEN s ELSE SubSeq(s, 1, Min(zs) - 1)

IsCont(b) == b >= 128 /\ b <= 191

\* number of bytes of the well-formed UTF-8 scalar that starts s, 0 if none
Utf8Width(s) ==
    LET b == s[1]
        n == Len(s)
    IN  IF b < 128 THEN 1
        ELSE IF b >= 194 /\ b <= 223
            THEN IF n >= 2 /\ IsCont(s[2]) THEN 2 ELSE 0
        ELSE IF b >= 224 /\ b <= 239
            THEN IF n >= 3 /\ IsCont(s[2]) /\ IsCont(s[3])
                    /\ (b = 224 => s[2] >= 160)
                    /\ (b = 237 => s[2] <= 159)
                 THEN 3 ELSE 0
        ELSE IF b >= 240 /\ b <= 244
            THEN IF n >= 4 /\ IsCont(s[2]) /\ IsCont(s[3]) /\ IsCont(s[4])
                    /\ (b = 240 => s[2] >= 144)
                    /\ (b = 244 => s[2] <= 143)
                 THEN 4 ELSE 0
        ELSE 0

\* the bytes are well-formed scalars one after the other; ok[k] says so of
\* the bytes from position k on
IsValidUtf8(s) ==
    LET n == Len(s)
        ok[k \in 1..(n + 1)] ==
            IF k > n THEN TRUE
            ELSE LET w == Utf8Width(SubSeq(s, k, n))
                 IN  w > 0 /\ ok[k + w]
    IN  ok[1]

\* String::from_utf8: the bytes themselves when well formed, an error otherwise
Utf8Error == [ok |-> FALSE, val |-> <<>>]

from_utf8(bytes) ==
    IF IsValidUtf8(bytes) THEN [ok |-> TRUE, val |-> bytes] ELSE Utf8Error

(***************************************************************************)
(* Frame codec of the transport thread.                                    *)
(***************************************************************************)
\* a plausible slip: the buffer is padded with blanks
EncodeFrameBlanks(msg) == Resize(msg, MSG_SIZE, 32)

\* msg.clone().into_bytes() resized to MSG_SIZE with zeros
EncodeFrame(msg) == Resize(msg, MSG_SIZE, 0)

\* the bytes before the first zero, as a String
DecodeFrame(buf) == from_utf8(TakeWhileNonZero(buf))

\* msg.split(" ").collect()
RECURSIVE Split(_)
Split(s) ==
    LET sp == {k \in 1..Len(s) : s[k] = 32}
    IN  IF sp = {} THEN <<s>>
        ELSE <<SubSeq(s, 1, Min(sp) - 1)>> \o Split(Drop(s, Min(sp)))

(***************************************************************************)
(* Square notation.                                                        *)
(***************************************************************************)
Panic == <<"panic">>

FileLetters == <<97, 98, 99, 100, 101, 102, 103, 104>>

RankDigits == <<49, 50, 51, 52, 53, 54, 55, 56>>

\* a plausible slip: the other rank-to-digit mapping, digit = 8 - rank
pos_string_flipped(pos) ==
    IF pos[2] \notin 0..7 \/ pos[1] \notin 0..7 THEN Panic
    ELSE <<FileLetters[pos[2] + 1], 48 + (8 - pos[1])>>

\* pos = <<rank, file>>; the letter of the file, then the digit rank + 1
pos_string(pos) ==
    IF pos[2] \notin 0..7 THEN Panic
    ELSE IF pos[1] \notin 0..7 THEN Panic
    ELSE <<FileLetters[pos[2] + 1], 48 + (pos[1] + 1)>>

None == [some |-> FALSE, val |-> <<>>]

Some(v) == [some |-> TRUE, val |-> v]

IndexOf(seq, x) == Min({k \in 1..Len(seq) : seq[k] = x}) - 1

\* one token: <<rank, file>> from chars[1] and chars[0]
CoordOf(tok) ==
    IF Len(tok) < 2 THEN Panic
    ELSE IF \A k \in 1..8 : RankDigits[k] # tok[2] THEN Panic
    ELSE IF \A k \in 1..8 : FileLetters[k] # tok[1] THEN Panic
    ELSE <<IndexOf(RankDigits, tok[2]), IndexOf(FileLetters, tok[1])>>

\* Option<Vec<String>> to Vec<(usize, usize)>; Panic when a token is malformed
pos_coord_vec(vec) ==
    IF ~vec.some THEN <<>>
    ELSE IF \E k \in 1..Len(vec.val) : CoordOf(vec.val[k]) = Panic THEN Panic
    ELSE [k \in 1..Len(vec.val) |-> CoordOf(vec.val[k])]


(***************************************************************************)
(* State.  Every client variable is a function of the client: one client   *)
(* whose peer is the environment (link = 0), or two clients whose sockets  *)
(* are joined to each other.                                               *)
(***************************************************************************)
VARIABLES
    link,        \* the client at the other end of the connection, 0: the environment
    proc,        \* the process: "running", "exit1" (process::exit(1)), "ended"
    app,         \* the main thread and its AppState: "running", "quit", "panicked"
    selected,    \* AppState.selected_square: <<>> (None) or <<rank, file>>
    highlighted, \* AppState.highlighted_squares
    applied,     \* the calls game.make_move(from, to), in order
    sendErr,     \* self.sender.send(msg) has returned an error
    outQ,        \* channel (sender, receiver): AppState to the transport thread
    inQ,         \* channel (send, rec): the transport thread to AppState
    enq,         \* every message sent on outQ, in order
    pushed,      \* every message sent on inQ, in order
    pc,          \* the transport thread: "read", "pop", "done", "panicked"
    net,         \* bytes written towards the client that have not arrived yet
    rbuf,        \* bytes that have arrived at the client's socket and are unread
    conn,        \* the connection as the client's socket sees it: "open", "eof", "reset"
    wrote,       \* the frames given to client.write_all, in order
    sockOut,     \* the bytes the socket accepted from write_all, in order
    peerSent,    \* the frames the environment's peer has written, in order
    codec        \* the frame and square codecs applied to one input

vars == <<link, proc, app, selected, highlighted, applied, sendErr, outQ, inQ, enq,
          pushed, pc, net, rbuf, conn, wrote, sockOut, peerSent, codec>>

appVars == <<app, selected, highlighted, applied, sendErr>>

netVars == <<net, rbuf, conn, sockOut, peerSent>>

Clients == DOMAIN pc

NoSquare == <<>>

Space == <<32>>

\* the squares a click lands on: e2 and e4 as <<rank, file>>
ClickSquares == {<<1, 4>>, <<3, 4>>}

\* what game.get_possible_moves may answer
EngineAnswers ==
    {None, Some(<<>>), Some(<<pos_string(<<1, 4>>), pos_string(<<3, 4>>)>>)}

\* the messages the environment's peer sends, in this order: "e7 e5", "d7 d5",
\* "g8 f6", ...
PeerMsg(n) ==
    IF n % 3 = 1 THEN <<101, 55, 32, 101, 53>>
    ELSE IF n % 3 = 2 THEN <<100, 55, 32, 100, 53>>
    ELSE <<103, 56, 32, 102, 54>>

\* a frame whose text is not UTF-8
BadFrame == Resize(<<255>>, MSG_SIZE, 0)

CodecIdle ==
    [pc |-> "idle", msg |-> <<>>, frame |-> <<>>, dec |-> Utf8Error,
     sq |-> <<>>, tok |-> <<>>, back |-> <<>>]

AppRunning(i) == proc[i] = "running" /\ app[i] = "running"

TWAlive(i) == proc[i] = "running" /\ pc[i] \in {"read", "pop"}

\* the transport thread is over (break or panic): its channel halves are
\* dropped
TWEnded(i) == pc[i] \in {"done", "panicked"}

\* the client's socket is closed: the other end sees the end of the stream
Closed(i) ==
    IF link[i] # 0 /\ conn[link[i]] = "open"
    THEN [conn EXCEPT ![link[i]] = "eof"]
    ELSE conn

RECURSIVE TrafficOf(_)
TrafficOf(C) ==
    IF C = {} THEN 0
    ELSE LET i == CHOOSE j \in C : TRUE
         IN  Len(enq[i]) + Len(peerSent[i]) + TrafficOf(C \ {i})

Traffic == TrafficOf(Clients)

InitClient(C, l) ==
    /\ link = l
    /\ proc = [i \in C |-> "running"]
    /\ app = [i \in C |-> "running"]
    /\ selected = [i \in C |-> NoSquare]
    /\ highlighted = [i \in C |-> <<>>]
    /\ applied = [i \in C |-> <<>>]
    /\ sendErr = [i \in C |-> FALSE]
    /\ outQ = [i \in C |-> <<>>]
    /\ inQ = [i \in C |-> <<>>]
    /\ enq = [i \in C |-> <<>>]
    /\ pushed = [i \in C |-> <<>>]
    /\ pc = [i \in C |-> "read"]
    /\ net = [i \in C |-> <<>>]
    /\ rbuf = [i \in C |-> <<>>]
    /\ conn = [i \in C |-> "open"]
    /\ wrote = [i \in C |-> <<>>]
    /\ sockOut = [i \in C |-> <<>>]
    /\ peerSent = [i \in C |-> <<>>]

Init ==
    /\ InitClient({1}, [i \in {1} |-> 0])
    /\ codec = CodecIdle

(***************************************************************************)
(* The transport thread (main, thread::spawn closure).                     *)
(***************************************************************************)
\* a plausible slip: the socket is left in blocking mode
SocketModeBlocking == "blocking"

\* client.set_nonblocking(true)
SocketMode == "nonblocking"

\* client.read_exact(&mut msg_buffer) on the non-blocking socket: read is
\* called until the buffer is full; bytes taken before a failing read stay
\* in msg_buffer, which the next cycle replaces by a fresh vec![0; MSG_SIZE]
ReadExact(i) ==
    IF conn[i] = "reset"
    THEN [res |-> "err", buf |-> Resize(<<>>, MSG_SIZE, 0), rest |-> rbuf[i]]
    ELSE IF Len(rbuf[i]) >= MSG_SIZE
    THEN [res |-> "ok", buf |-> Take(rbuf[i], MSG_SIZE),
          rest |-> Drop(rbuf[i], MSG_SIZE)]
    ELSE IF conn[i] = "eof" /\ net[i] = <<>>
    THEN [res |-> "err", buf |-> Resize(rbuf[i], MSG_SIZE, 0), rest |-> <<>>]
    ELSE [res |-> "wouldblock", buf |-> Resize(rbuf[i], MSG_SIZE, 0),
          rest |-> <<>>]

\* a plausible slip: "no data" is handled by the arm of a received message
AfterReadPushAlways(res) ==
    IF res = "ok" \/ res = "wouldblock" THEN "push" ELSE "break"

\* a plausible slip: every error is taken for "no message in stream"
AfterReadNoBreak(res) ==
    IF res = "ok" THEN "push" ELSE "skip"

\* the arms of match client.read_exact(..)
AfterRead(res) ==
    IF res = "ok" THEN "push"
    ELSE IF res = "wouldblock" THEN "skip"
    ELSE "break"

\* read_exact returns: at once on the non-blocking socket; a blocking socket
\* makes it wait for the bytes, an error or the end of the stream
ReadReturns(i) ==
    SocketMode = "nonblocking" \/ ReadExact(i).res # "wouldblock"

TWRead(i) ==
    /\ TWAlive(i)
    /\ pc[i] = "read"
    /\ ReadReturns(i)
    /\ LET r == ReadExact(i)
           next == AfterRead(r.res)
           d == DecodeFrame(r.buf)
       IN  /\ rbuf' = [rbuf EXCEPT ![i] = r.rest]
           /\ IF next = "push" /\ ~d.ok
              THEN \* expect("Invalid UTF-8 message!") panics the thread
                   /\ pc' = [pc EXCEPT ![i] = "panicked"]
                   /\ conn' = Closed(i)
                   /\ UNCHANGED <<proc, inQ, pushed>>
              ELSE IF next = "push" /\ app[i] # "running"
              THEN \* send.send(msg).is_err(): process::exit(1)
                   /\ proc' = [proc EXCEPT ![i] = "exit1"]
                   /\ conn' = Closed(i)
                   /\ UNCHANGED <<pc, inQ, pushed>>
              ELSE IF next = "push"
              THEN /\ inQ' = [inQ EXCEPT ![i] = Append(@, d.val)]
                   /\ pushed' = [pushed EXCEPT ![i] = Append(@, d.val)]
                   /\ pc' = [pc EXCEPT ![i] = "pop"]
                   /\ UNCHANGED <<proc, conn>>
              ELSE IF next = "skip"
              THEN /\ pc' = [pc EXCEPT ![i] = "pop"]
                   /\ UNCHANGED <<proc, conn, inQ, pushed>>
              ELSE \* "Lost connection with server!": break
                   /\ pc' = [pc EXCEPT ![i] = "done"]
                   /\ conn' = Closed(i)
                   /\ UNCHANGED <<proc, inQ, pushed>>
    /\ UNCHANGED <<link, appVars, outQ, enq, net, wrote, sockOut, peerSent,
                   codec>>

\* a plausible slip: the newest message is taken first
TryRecvNewest(q) == [msg |-> q[Len(q)], rest |-> SubSeq(q, 1, Len(q) - 1)]

\* Receiver::try_recv on a channel that holds a message
TryRecv(q) == [msg |-> Head(q), rest |-> Tail(q)]

\* what client.write_all may put on the non-blocking socket: the whole frame,
\* or a part of it before an error
WriteSizes(i) ==
    IF conn[i] = "reset" THEN {0} ELSE {0, PartialChunk, MSG_SIZE}

\* a plausible slip: a failed write ends the loop like a lost connection
AfterPopBreakOnWriteError(res, written) ==
    IF res = "disconnected" \/ (res = "msg" /\ ~written) THEN "break"
    ELSE "continue"

\* a plausible slip: a dropped sender is taken for an empty channel
AfterPopIgnoreDisconnect(res, written) == "continue"

\* the arms of match receiver.try_recv(): a failed write_all only prints
\* "Failed to send message!", Empty is (), Disconnected breaks the loop
AfterPop(res, written) ==
    IF res = "disconnected" THEN "break" ELSE "continue"

\* the rest of an iteration: one try_recv on the outbound channel, the write
\* of its message, and thread::sleep(Duration::from_millis(100))
TWPop(i) ==
    /\ TWAlive(i)
    /\ pc[i] = "pop"
    /\ IF outQ[i] # <<>>
       THEN LET m == TryRecv(outQ[i])
                frame == EncodeFrame(m.msg)
            IN  \E k \in WriteSizes(i) :
                    LET next == AfterPop("msg", k = MSG_SIZE)
                    IN  /\ outQ' = [outQ EXCEPT ![i] = m.rest]
                        /\ wrote' = [wrote EXCEPT ![i] = Append(@, frame)]
                        /\ sockOut' = [sockOut EXCEPT
                                         ![i] = @ \o Take(frame, k)]
                        /\ net' = IF link[i] # 0
                                  THEN [net EXCEPT
                                          ![link[i]] = @ \o Take(frame, k)]
                                  ELSE net
                        /\ pc' = [pc EXCEPT
                                    ![i] = IF next = "continue" THEN "read"
                                           ELSE "done"]
                        /\ conn' = IF next = "continue" THEN conn
                                   ELSE Closed(i)
       ELSE LET res == IF app[i] = "running" THEN "empty" ELSE "disconnected"
                next == AfterPop(res, FALSE)
            IN  /\ pc' = [pc EXCEPT
                            ![i] = IF next = "continue" THEN "read"
                                   ELSE "done"]
                /\ conn' = IF next = "continue" THEN conn ELSE Closed(i)
                /\ UNCHANGED <<outQ, wrote, sockOut, net>>
    /\ UNCHANGED <<link, proc, appVars, inQ, enq, pushed, rbuf, peerSent,
                   codec>>

(***************************************************************************)
(* The main thread: AppState's event handlers.                             *)
(***************************************************************************)
InSeq(x, seq) == \E k \in 1..Len(seq) : seq[k] = x

\* a plausible slip: the destination is written before the origin
MoveMessageSwapped(from, to) == pos_string(to) \o Space \o pos_string(from)

\* a plausible slip: the squares are joined by '-'
MoveMessageDash(from, to) == pos_string(from) \o <<45>> \o pos_string(to)

\* pos_string(pos) + " " + &pos_string((rank, file))
MoveMessage(from, to) == pos_string(from) \o Space \o pos_string(to)

\* a plausible slip: the failed send is only logged
OnSendErrorLog == "continue"

\* if self.sender.send(msg).is_err() { println!("crashed"); process::exit(1) }
OnSendError == "exit"

\* the squares to highlight for a newly selected square: the engine's answer
\* when the piece on it has the active colour
Highlights(ans, own) == IF own THEN pos_coord_vec(ans) ELSE <<>>

\* mouse_button_up_event with the left button on square sq
Click(i) ==
    /\ AppRunning(i)
    /\ \E sq \in ClickSquares, ans \in EngineAnswers, own \in BOOLEAN :
        IF selected[i] # NoSquare /\ selected[i] = sq
        THEN /\ selected' = [selected EXCEPT ![i] = NoSquare]
             /\ highlighted' = [highlighted EXCEPT ![i] = <<>>]
             /\ UNCHANGED <<proc, conn, outQ, enq, sendErr>>
        ELSE IF selected[i] # NoSquare /\ InSeq(sq, highlighted[i])
        THEN IF pc[i] \in {"read", "pop"}
             THEN \* the transport thread holds the receiver: send succeeds
                  /\ Traffic < MaxTraffic
                  /\ outQ' = [outQ EXCEPT
                               ![i] = Append(@, MoveMessage(selected[i], sq))]
                  /\ enq' = [enq EXCEPT
                               ![i] = Append(@, MoveMessage(selected[i], sq))]
                  /\ selected' = [selected EXCEPT ![i] = NoSquare]
                  /\ highlighted' = [highlighted EXCEPT ![i] = <<>>]
                  /\ UNCHANGED <<proc, conn, sendErr>>
             ELSE \* the receiver was dropped with the thread: send fails
                  /\ sendErr' = [sendErr EXCEPT ![i] = TRUE]
                  /\ IF OnSendError = "exit"
                     THEN /\ proc' = [proc EXCEPT ![i] = "exit1"]
                          /\ conn' = Closed(i)
                          /\ UNCHANGED <<selected, highlighted, outQ, enq>>
                     ELSE /\ selected' = [selected EXCEPT ![i] = NoSquare]
                          /\ highlighted' = [highlighted EXCEPT ![i] = <<>>]
                          /\ UNCHANGED <<proc, conn, outQ, enq>>
        ELSE /\ selected' = [selected EXCEPT ![i] = sq]
             /\ highlighted' = [highlighted EXCEPT ![i] = Highlights(ans, own)]
             /\ UNCHANGED <<proc, conn, outQ, enq, sendErr>>
    /\ UNCHANGED <<link, app, applied, inQ, pushed, pc, net, rbuf, wrote,
                   sockOut, peerSent, codec>>

\* a plausible slip: the highlights are refreshed with no square selected
RefreshAlways(sel, old, ans) == pos_coord_vec(ans)

\* match self.selected_square: Some(sel) sets highlighted_squares to the
\* engine's moves for sel, None leaves them
Refresh(sel, old, ans) == IF sel # NoSquare THEN pos_coord_vec(ans) ELSE old

\* a plausible slip: the result of try_recv is unwrapped when the sender is
\* gone
OnDisconnectedPanic == "panic"

\* Err(TryRecvError::Disconnected) => ()
OnDisconnected == "nothing"

\* update: one try_recv on the inbound channel
Update(i) ==
    /\ AppRunning(i)
    /\ IF inQ[i] # <<>>
       THEN LET m == TryRecv(inQ[i])
                positions == Split(m.msg)
            IN  /\ inQ' = [inQ EXCEPT ![i] = m.rest]
                /\ IF Len(positions) < 2
                   THEN \* positions[1]: index out of bounds
                        /\ app' = [app EXCEPT ![i] = "panicked"]
                        /\ UNCHANGED <<applied, highlighted>>
                   ELSE /\ applied' = [applied EXCEPT
                              ![i] = Append(@, <<positions[1], positions[2]>>)]
                        /\ \E ans \in EngineAnswers :
                              highlighted' =
                                  [highlighted EXCEPT
                                     ![i] = Refresh(selected[i], @, ans)]
                        /\ app' = app
       ELSE IF TWEnded(i) /\ OnDisconnected = "panic"
       THEN /\ app' = [app EXCEPT ![i] = "panicked"]
            /\ UNCHANGED <<inQ, applied, highlighted>>
       ELSE \* Empty, or Disconnected: nothing to do
            UNCHANGED <<inQ, app, applied, highlighted>>
    /\ UNCHANGED <<link, proc, selected, sendErr, outQ, enq, pushed, pc,
                   netVars, wrote, codec>>

\* key_down_event with Escape: event::quit; the event loop drops AppState
Quit(i) ==
    /\ AppRunning(i)
    /\ app' = [app EXCEPT ![i] = "quit"]
    /\ UNCHANGED <<link, proc, selected, highlighted, applied, sendErr, outQ,
                   inQ, enq, pushed, pc, netVars, wrote, codec>>

\* the main thread is over (quit or panic): the process ends
MainEnd(i) ==
    /\ proc[i] = "running"
    /\ app[i] # "running"
    /\ proc' = [proc EXCEPT ![i] = "ended"]
    /\ conn' = Closed(i)
    /\ UNCHANGED <<link, appVars, outQ, inQ, enq, pushed, pc, net, rbuf,
                   wrote, sockOut, peerSent, codec>>

(***************************************************************************)
(* The connection and the environment's peer.                              *)
(***************************************************************************)
\* the sizes in which bytes in flight may arrive: all of them, or the first
\* PartialChunk bytes of a frame when the segment is cut there
ArriveSizes(n) ==
    {Len(n)} \cup (IF Len(n) % MSG_SIZE = 0 THEN {PartialChunk} ELSE {})

\* bytes in flight reach the client's socket
Arrive(i) ==
    /\ TWAlive(i)
    /\ net[i] # <<>>
    /\ conn[i] # "reset"
    /\ \E k \in ArriveSizes(net[i]) :
          /\ rbuf' = [rbuf EXCEPT ![i] = @ \o Take(net[i], k)]
          /\ net' = [net EXCEPT ![i] = Drop(@, k)]
    /\ UNCHANGED <<link, proc, appVars, outQ, inQ, enq, pushed, pc, conn,
                   wrote, sockOut, peerSent, codec>>

\* the environment's peer writes its next move, or a frame that is not text
PeerWrite(i) ==
    /\ link[i] = 0
    /\ TWAlive(i)
    /\ conn[i] = "open"
    /\ Traffic < MaxTraffic
    /\ \E f \in {EncodeFrame(PeerMsg(Len(peerSent[i]) + 1)), BadFrame} :
          /\ net' = [net EXCEPT ![i] = @ \o f]
          /\ peerSent' = [peerSent EXCEPT ![i] = Append(@, f)]
    /\ UNCHANGED <<link, proc, appVars, outQ, inQ, enq, pushed, pc, rbuf,
                   conn, wrote, sockOut, codec>>

\* the peer closes its end: the client reads the end of the stream
PeerClose(i) ==
    /\ link[i] = 0
    /\ TWAlive(i)
    /\ conn[i] = "open"
    /\ conn' = [conn EXCEPT ![i] = "eof"]
    /\ UNCHANGED <<link, proc, appVars, outQ, inQ, enq, pushed, pc, net,
                   rbuf, wrote, sockOut, peerSent, codec>>

\* the connection is reset
PeerReset(i) ==
    /\ link[i] = 0
    /\ TWAlive(i)
    /\ conn[i] # "reset"
    /\ conn' = [conn EXCEPT ![i] = "reset"]
    /\ UNCHANGED <<link, proc, appVars, outQ, inQ, enq, pushed, pc, net,
                   rbuf, wrote, sockOut, peerSent, codec>>

Next ==
    \/ \E i \in Clients : TWRead(i)
    \/ \E i \in Clients : TWPop(i)
    \/ \E i \in Clients : Click(i)
    \/ \E i \in Clients : Update(i)
    \/ \E i \in Clients : Quit(i)
    \/ \E i \in Clients : MainEnd(i)
    \/ \E i \in Clients : Arrive(i)
    \/ \E i \in Clients : PeerWrite(i)
    \/ \E i \in Clients : PeerClose(i)
    \/ \E i \in Clients : PeerReset(i)

\* one client and the environment as its peer
Spec == Init /\ [][Next]_vars

(***************************************************************************)
(* Two clients whose sockets are joined to each other.                     *)
(***************************************************************************)
InitPair ==
    /\ InitClient({1, 2}, [i \in {1, 2} |-> 3 - i])
    /\ codec = CodecIdle

\* neither user quits: the connection is lost only by a thread's own doing
NextPair ==
    \/ \E i \in Clients : TWRead(i)
    \/ \E i \in Clients : TWPop(i)
    \/ \E i \in Clients : Click(i)
    \/ \E i \in Clients : Update(i)
    \/ \E i \in Clients : MainEnd(i)
    \/ \E i \in Clients : Arrive(i)

SpecPair == InitPair /\ [][NextPair]_vars

(***************************************************************************)
(* The codecs as functions: one input, encoded and then decoded.           *)
(***************************************************************************)
\* n characters 'a', the one at position p replaced by the character c
GenMsg(n, p, c) ==
    LET before == [k \in 1..(p - 1) |-> 97]
        after == [k \in 1..(n - p) |-> 97]
    IN  before \o c \o after

\* 'a', NUL and a two-byte character
CodecChars == {<<97>>, <<0>>, <<195, 169>>}

CodecMsgs ==
    {<<>>, PeerMsg(1), PeerMsg(2)}
        \cup {GenMsg(n, p, c) : n \in 1..MaxChars, p \in 1..MaxChars,
                                c \in CodecChars}

InitCodec ==
    /\ InitClient({1}, [i \in {1} |-> 0])
    /\ \/ \E m \in CodecMsgs :
             /\ Len(m) <= MaxChars + 1
             /\ codec = [CodecIdle EXCEPT !.pc = "msg", !.msg = m]
       \/ \E r \in 0..7, f \in 0..7 :
             codec = [CodecIdle EXCEPT !.pc = "square", !.sq = <<r, f>>]

clientVars ==
    <<link, proc, app, selected, highlighted, applied, sendErr, outQ, inQ, enq,
      pushed, pc, net, rbuf, conn, wrote, sockOut, peerSent>>

\* the write path of the transport thread on the message
CodecEncode ==
    /\ codec.pc = "msg"
    /\ codec' = [codec EXCEPT !.pc = "frame", !.frame = EncodeFrame(codec.msg)]
    /\ UNCHANGED clientVars

\* the read path of the transport thread on the frame
CodecDecode ==
    /\ codec.pc = "frame"
    /\ codec' = [codec EXCEPT !.pc = "text", !.dec = DecodeFrame(codec.frame)]
    /\ UNCHANGED clientVars

SquareEncode ==
    /\ codec.pc = "square"
    /\ codec' = [codec EXCEPT !.pc = "token", !.tok = pos_string(codec.sq)]
    /\ UNCHANGED clientVars

SquareDecode ==
    /\ codec.pc = "token"
    /\ codec' = [codec EXCEPT
                   !.pc = "coord", !.back = pos_coord_vec(Some(<<codec.tok>>))]
    /\ UNCHANGED clientVars

NextCodec ==
    \/ CodecEncode
    \/ CodecDecode
    \/ SquareEncode
    \/ SquareDecode

SpecCodec == InitCodec /\ [][NextCodec]_vars

(***************************************************************************)
(* Properties.                                                             *)
(***************************************************************************)
NoZero(s) == \A k \in 1..Len(s) : s[k] # 0

\* C1: a message shorter than MSG_SIZE bytes that holds no zero byte comes
\* back unchanged from the read path applied to the frame of the write path.
C1_FrameRoundTrip ==
    (codec.pc = "text" /\ Len(codec.msg) < MSG_SIZE /\ NoZero(codec.msg))
        => codec.dec = [ok |-> TRUE, val |-> codec.msg]

\* a message of MSG_SIZE - 1 bytes with a two-byte character has made the trip
C1_Witness ==
    /\ codec.pc = "text"
    /\ Len(codec.msg) = MSG_SIZE - 1
    /\ NoZero(codec.msg)
    /\ codec.msg[MSG_SIZE - 2] = 195
    /\ codec.dec.ok

C3_SquareRoundTrip ==
    /\ codec.pc \in {"token", "coord"}
          => codec.tok = <<97 + codec.sq[2], 49 + codec.sq[1]>>
    /\ codec.pc = "coord" => codec.back = <<codec.sq>>

\* the square a7 (rank 6, file 0) has made the trip
C3_Witness == codec.pc = "coord" /\ codec.sq = <<6, 0>> /\ Len(codec.back) = 1

\* C4: the inbound channel grows only in a step of the transport thread whose
\* read_exact succeeded, and then by one message: a cycle whose read reports
\* "would block" pushes nothing.
C4_NoPushOnWouldBlock ==
    [][\A i \in Clients :
          pushed'[i] # pushed[i]
              => /\ pc[i] = "read"
                 /\ ReadExact(i).res = "ok"
                 /\ Len(pushed'[i]) = Len(pushed[i]) + 1
                 /\ inQ'[i] = Append(inQ[i], pushed'[i][Len(pushed'[i])])]_vars

\* a read has taken the first part of a frame, reported "would block" and
\* pushed nothing
C4_Witness ==
    /\ pc[1] = "pop"
    /\ Len(peerSent[1]) = 1
    /\ rbuf[1] = <<>>
    /\ Len(net[1]) = MSG_SIZE - PartialChunk
    /\ pushed[1] = <<>>

\* C5: the frames given to write_all are the frames of the first messages
\* enqueued, one write per message, in the order of the enqueues; what is
\* enqueued and not written yet waits in the channel, in that order.
C5_WritesInOrder ==
    \A i \in Clients :
        /\ Len(wrote[i]) <= Len(enq[i])
        /\ \A k \in 1..Len(wrote[i]) :
              /\ Len(wrote[i][k]) = MSG_SIZE
              /\ TakeWhileNonZero(wrote[i][k]) = enq[i][k]
        /\ outQ[i] = SubSeq(enq[i], Len(wrote[i]) + 1, Len(enq[i]))

\* two different moves were enqueued and both were written
C5_Witness ==
    /\ Len(wrote[1]) = 2
    /\ enq[1][1] # enq[1][2]
    /\ outQ[1] = <<>>

\* C6: a read error other than "would block" ends the transport thread in
\* that step, without a write; from then on the thread stays ended, nothing
\* is read from or written to the socket and a waiting message stays unwritten.
C6_ReadErrorEndsWorker ==
    [][\A i \in Clients :
          /\ (pc[i] = "read" /\ ReadExact(i).res = "err" /\ pc'[i] # "read")
                => /\ pc'[i] = "done"
                   /\ wrote'[i] = wrote[i]
                   /\ outQ'[i] = outQ[i]
          /\ pc[i] = "done"
                => /\ pc'[i] = "done"
                   /\ wrote'[i] = wrote[i]
                   /\ sockOut'[i] = sockOut[i]
                   /\ rbuf'[i] = rbuf[i]
                   /\ outQ'[i] = outQ[i]
                   /\ pushed'[i] = pushed[i]]_vars

\* the thread has ended on a read error while a move waits in the channel
C6_Witness ==
    /\ pc[1] = "done"
    /\ conn[1] = "reset"
    /\ outQ[1] # <<>>
    /\ wrote[1] = <<>>

\* C7: once a send on the outbound channel has failed, the process has
\* ended with process::exit(1): no state has the failure and a live process.
C7_FailedPushExits ==
    \A i \in Clients :
        sendErr[i] => proc[i] = "exit1"

\* a move was finalized after the transport thread had ended
C7_Witness == sendErr[1] /\ proc[1] = "exit1" /\ pc[1] \in {"done", "panicked"}

\* the move message of a selected square and a destination, byte by byte
ExpectedMessage(from, to) ==
    <<97 + from[2], 49 + from[1], 32, 97 + to[2], 49 + to[1]>>

PeerTexts(i) == [k \in 1..Len(peerSent[i]) |-> TakeWhileNonZero(peerSent[i][k])]

\* C9: while the peer writes whole frames of move messages, what the
\* transport thread pushes onto the inbound channel is those messages,
\* unchanged and in the order written.
C9_DeliveredInOrder ==
    \A i \in Clients :
        (link[i] = 0 /\ \A k \in 1..Len(peerSent[i]) : peerSent[i][k] # BadFrame)
            => IsPrefix(pushed[i], PeerTexts(i))

\* nothing is in a channel or under way, and no connection or thread is lost
Quiescent ==
    \A i \in Clients :
        /\ proc[i] = "running" /\ app[i] = "running" /\ pc[i] \in {"read", "pop"}
        /\ conn[i] = "open"
        /\ outQ[i] = <<>> /\ inQ[i] = <<>> /\ net[i] = <<>> /\ rbuf[i] = <<>>

\* C10: at quiescence the two rules engines have been given the same moves.
C10_LockStep == Quiescent => applied[1] = applied[2]

\* C11: a step that gives a frame to write_all and puts less than the whole
\* frame on the socket leaves the transport thread in its loop, at the read
\* of the next iteration; the message is taken off the outbound channel and
\* is not put back.
C11_WriteFailureContinues ==
    [][\A i \in Clients :
          (wrote'[i] # wrote[i] /\ Len(sockOut'[i]) < Len(sockOut[i]) + MSG_SIZE)
              => /\ pc'[i] = "read"
                 /\ proc'[i] = "running"
                 /\ outQ[i] # <<>>
                 /\ outQ'[i] = Tail(outQ[i])
                 /\ wrote'[i] = Append(wrote[i], EncodeFrame(Head(outQ[i])))
                 /\ enq'[i] = enq[i]]_vars

\* the write of the first move failed after PartialChunk bytes, and a later
\* iteration has written the whole frame of the second move
C11_Witness ==
    /\ Len(wrote[1]) = 2
    /\ Len(sockOut[1]) = PartialChunk + MSG_SIZE
    /\ sockOut[1] = Take(wrote[1][1], PartialChunk) \o wrote[1][2]
    /\ outQ[1] = <<>>

\* C12: a step that reads a frame whose text is not UTF-8 pushes nothing and
\* leaves the transport thread in its loop, at the pop of that iteration.
C12_BadFrameSkipped ==
    [][\A i \in Clients :
          (/\ TWAlive(i)
           /\ pc[i] = "read"
           /\ ReadExact(i).res = "ok"
           /\ ~DecodeFrame(ReadExact(i).buf).ok
           /\ Len(rbuf'[i]) < Len(rbuf[i]))
              => /\ pc'[i] = "pop"
                 /\ pushed'[i] = pushed[i]]_vars

\* C13 as stated: once the transport thread is over, no step of a running
\* application ends the process or crashes the main thread.
C13_FrozenNotCrashed ==
    [][\A i \in Clients :
          (TWEnded(i) /\ AppRunning(i))
              => /\ proc'[i] = "running"
                 /\ app'[i] # "panicked"]_vars

\* C13, amended: once the transport thread is over, a logic step that finds
\* the inbound channel empty does nothing and does not crash, a message
\* still in the channel is taken as before (the main thread panics only on
\* one without a space), no move is exchanged any more, and the process
\* stays up until a click finalizes a move: that click's push fails and
\* ends the process with exit(1).
C13_FrozenUntilPush ==
    [][\A i \in Clients :
          (TWEnded(i) /\ AppRunning(i))
              => /\ inQ[i] = <<>>
                       => /\ app'[i] # "panicked"
                          /\ applied'[i] = applied[i]
                 /\ app'[i] = "panicked"
                       => /\ inQ[i] # <<>>
                          /\ Len(Split(Head(inQ[i]))) < 2
                 /\ proc'[i] # "running"
                       => /\ proc'[i] = "exit1"
                          /\ sendErr'[i] /\ ~sendErr[i]
                          /\ selected[i] # NoSquare
                          /\ highlighted[i] # <<>>
                 /\ TWEnded(i)'
                 /\ enq'[i] = enq[i]
                 /\ pushed'[i] = pushed[i]
                 /\ wrote'[i] = wrote[i]
                 /\ sockOut'[i] = sockOut[i]]_vars

\* the transport thread ended on the end of the stream; the application has
\* since applied the move that was in the channel and holds a selection
C13_Witness ==
    /\ pc[1] = "done"
    /\ conn[1] = "eof"
    /\ AppRunning(1)
    /\ Len(applied[1]) = 1
    /\ inQ[1] = <<>>
    /\ selected[1] # NoSquare
    /\ highlighted[1] # <<>>

\* C14: the transport thread is over within the iteration that finds a
\* channel half dropped: a push of a decoded message with the receiver gone
\* writes nothing and ends the thread (with the process), a pop that reports
\* Disconnected ends the loop; a thread that is over stays over and neither
\* takes bytes from the socket nor writes to it.
C14_DroppedHalfEndsWorker ==
    [][\A i \in Clients :
          /\ (/\ TWAlive(i)
              /\ pc[i] = "read"
              /\ app[i] # "running"
              /\ ReadExact(i).res = "ok"
              /\ DecodeFrame(ReadExact(i).buf).ok
              /\ Len(rbuf'[i]) < Len(rbuf[i]))
                => /\ ~(proc'[i] = "running" /\ pc'[i] \in {"read", "pop"})
                   /\ pushed'[i] = pushed[i]
                   /\ wrote'[i] = wrote[i]
                   /\ sockOut'[i] = sockOut[i]
          /\ (/\ TWAlive(i)
              /\ pc[i] = "pop"
              /\ outQ[i] = <<>>
              /\ app[i] # "running"
              /\ pc'[i] # pc[i])
                => /\ pc'[i] = "done"
                   /\ wrote'[i] = wrote[i]
                   /\ sockOut'[i] = sockOut[i]
          /\ ~TWAlive(i)
                => /\ ~(proc'[i] = "running" /\ pc'[i] \in {"read", "pop"})
                   /\ rbuf'[i] = rbuf[i]
                   /\ wrote'[i] = wrote[i]
                   /\ sockOut'[i] = sockOut[i]]_vars

\* after Escape the transport thread found the sender dropped and left its
\* loop, on an open connection, before the process was over
C14_Witness ==
    /\ pc[1] = "done"
    /\ app[1] = "quit"
    /\ conn[1] = "open"
    /\ proc[1] = "running"

\* five bytes: a letter a..h, a digit 1..8, one space, a letter, a digit
IsMoveForm(m) ==
    /\ Len(m) = 5
    /\ m[1] \in 97..104 /\ m[2] \in 49..56
    /\ m[3] = 32
    /\ m[4] \in 97..104 /\ m[5] \in 49..56

\* C15: every message ever pushed onto the outbound channel, and so every
\* message in it, is "<file><rank> <file><rank>": 5 bytes, fewer than
\* MSG_SIZE.
C15_MoveForm ==
    \A i \in Clients :
        /\ \A k \in 1..Len(enq[i]) :
              IsMoveForm(enq[i][k]) /\ Len(enq[i][k]) < MSG_SIZE
        /\ \A k \in 1..Len(outQ[i]) : IsMoveForm(outQ[i][k])

\* e2 was selected, e4 clicked, and "e2 e4" pushed
C15_Witness ==
    /\ enq[1] # <<>>
    /\ enq[1][1] = <<101, 50, 32, 101, 52>>

\* C16: no transport thread that is alive is stuck: at its read the step of
\* read_exact can be taken, at its pop the step of try_recv and write can
\* be taken, whatever the channels, the socket and the main thread are
\* doing; and the logic step of a running application can always be taken.
C16_NeverStuck ==
    \A i \in Clients :
        /\ (TWAlive(i) /\ pc[i] = "read") => ENABLED TWRead(i)
        /\ (TWAlive(i) /\ pc[i] = "pop") => ENABLED TWPop(i)
        /\ AppRunning(i) => ENABLED Update(i)

\* the transport thread is at its read again after a write, with a silent
\* peer, nothing on the socket and both channels empty
C16_Witness ==
    /\ TWAlive(1) /\ AppRunning(1)
    /\ pc[1] = "read"
    /\ Len(wrote[1]) = 1
    /\ peerSent[1] = <<>>
    /\ rbuf[1] = <<>> /\ net[1] = <<>>
    /\ inQ[1] = <<>> /\ outQ[1] = <<>>

\* C17: a step that takes a message from the inbound channel takes the
\* oldest one, and only that, and gives its first and second token to
\* make_move without ending the main thread; make_move is called in no
\* other step.
C17_OneMovePerStep ==
    [][\A i \in Clients :
          /\ Len(inQ'[i]) < Len(inQ[i])
                => /\ inQ'[i] = Tail(inQ[i])
                   /\ Len(Split(Head(inQ[i]))) >= 2
                   /\ applied'[i] =
                         Append(applied[i], <<Split(Head(inQ[i]))[1],
                                              Split(Head(inQ[i]))[2]>>)
                   /\ app'[i] = "running"
          /\ applied'[i] # applied[i] => Len(inQ'[i]) < Len(inQ[i])]_vars

\* C18: every message pushed onto the inbound channel is the text of one
\* whole frame the peer wrote.
C18_WholeFramesRead ==
    \A i \in Clients :
        link[i] = 0
            => \A k \in 1..Len(pushed[i]) :
                  \E j \in 1..Len(peerSent[i]) :
                      pushed[i][k] = TakeWhileNonZero(peerSent[i][j])

\* C19: the bytes put on the socket are whole frames given to write_all,
\* one after the other.
C19_WholeFramesWritten ==
    \A i \in Clients :
        /\ Len(sockOut[i]) % MSG_SIZE = 0
        /\ \A k \in 1..(Len(sockOut[i]) \div MSG_SIZE) :
              InSeq(SubSeq(sockOut[i], (k - 1) * MSG_SIZE + 1, k * MSG_SIZE),
                    wrote[i])

\* C20: squares are highlighted only while a square is selected; a move is
\* pushed only by a step that starts with a square selected and names a
\* highlighted square other than it, and that step clears the selection and
\* the highlights.
C20_SelectionMachine ==
    [][\A i \in Clients :
          /\ highlighted'[i] # <<>> => selected'[i] # NoSquare
          /\ enq'[i] # enq[i]
                => /\ selected[i] # NoSquare
                   /\ \E k \in 1..Len(highlighted[i]) :
                         /\ highlighted[i][k] # selected[i]
                         /\ enq'[i] = Append(enq[i],
                               MoveMessage(selected[i], highlighted[i][k]))
                   /\ selected'[i] = NoSquare
                   /\ highlighted'[i] = <<>>]_vars

\* a remote move was applied and a local move pushed, which left nothing
\* selected and nothing highlighted
C20_Witness ==
    /\ Len(applied[1]) = 1
    /\ Len(enq[1]) = 1
    /\ outQ[1] # <<>>
    /\ selected[1] = NoSquare
    /\ highlighted[1] = <<>>

=============================================================================
